---- MODULE Spec2Model ----
(***************************************************************************)
(* The tiered image cache (RAM map + disk files), the /og request path,    *)
(* the two rate limiters and the choice between them at startup, the cache *)
(* administration routes and the periodic cleanup of coolify-og-image-gen, *)
(* as a state machine.                                                     *)
(*                                                                         *)
(* Node runs the program on one thread: code between two awaits is one     *)
(* atomic step, and every await (fs.stat, fs.readFile, fs.unlink,          *)
(* fs.writeFile, fs.readdir, generate_image) is a point where the steps of *)
(* other requests, the cleanup timer and the clock may interleave.         *)
(* Strings are sequences of one-character strings, so that trimming,       *)
(* joining and file-name sanitizing are computed as the code computes them.*)
(***************************************************************************)
EXTENDS Integers, Sequences, FiniteSets, TLC

VARIABLES
    env,             \* process.env, as read when the process started
    ratelimit,       \* the module variable ratelimit: the Upstash limiter or null
    og_middleware,   \* the rate limiting middleware registered on /og
    now,             \* Date.now(), in milliseconds
    ram_cache,       \* the Map ram_cache, in insertion order: a sequence of entries
    disk,            \* the files of CACHE_DIR: file name -> [content, mtime]
    pending,         \* fs.writeFile calls of save_to_disk_cache not yet performed
    request_counts,  \* the Map request_counts: client ip -> [count, reset_time]
    pc,              \* where each request is (which await it is suspended on)
    loc,             \* the local variables of each request
    nreq,            \* number of requests received so far
    stored,          \* history: per key, the cache_image calls made for it
    decisions,       \* history: per client, the decisions taken in its window
    undisturbed,     \* history: the requests no other step has run in between
    last             \* history: the step taken last, with what it returned

\* what is set while the process starts and no request handler assigns
startup == <<env, ratelimit, og_middleware>>

vars == <<startup, now, ram_cache, disk, pending, request_counts, pc, loc, nreq,
          stored, decisions, undisturbed, last>>

----------------------------------------------------------------------------
(* Configuration: the environment variables the process was started with.  *)

CACHE_TTL == 2
SHORT_CACHE_TTL == 1
HTTP_CACHE_TTL == 3
MAX_RAM_CACHE_SIZE == 1
MsPerSec == 1000
window_ms == 1000
max_requests == 2

\* process.env.ADMIN_TOKEN
ADMIN_TOKEN == <<"s">>
\* process.env.ALLOWED_ORIGINS.split(",")
allowed_origins == {<<"o">>}
\* process.env.NODE_ENV
NODE_ENV == "production"

\* a variable of process.env that is not set reads undefined: ADMIN_TOKEN is
\* kept as <<>> when it is not set and as <<value>> when it is
Unset == <<>>

\* process.env, with the variables that the rate limiting setup reads ("": unset)
\* and ADMIN_TOKEN
Env(node_env, url, token) ==
    [NODE_ENV |-> node_env, UPSTASH_REDIS_REST_URL |-> url,
     UPSTASH_REDIS_REST_TOKEN |-> token, ADMIN_TOKEN |-> <<ADMIN_TOKEN>>]

(* Bounds of the exploration.                                              *)
MaxTick == 3
MaxReqs == 3
MaxAdminReqs == 3
MaxDecisions == 6
MaxDiskReqs == 3
MaxIoReqs == 2
MaxStrategyReqs == 3
MaxTierReqs == 2
MaxPullReqs == 2
MaxLiveReqs == 2
MaxBurstReqs == 5
MaxUnsetReqs == 2

Procs == {1, 2}

\* the images generate_image may return, numbered in the order of first use
Payloads == {1, 2}

----------------------------------------------------------------------------
(* Strings.                                                                *)

Str_a_b == <<"a", " ", "b">>
Str_a_u_b == <<"a", "_", "b">>
Str_x == <<"x">>
Str_y == <<"y">>
Str_light == <<"l", "i", "g", "h", "t">>
Str_dark == <<"d", "a", "r", "k">>
Str_Anonymous == <<"A", "n", "o", "n", "y", "m", "o", "u", "s">>
Str_example_com == <<"e", "x", "a", "m", "p", "l", "e", ".", "c", "o", "m">>

\* the characters of the class [a-zA-Z0-9\-_] that occur in the model's strings
SafeChars ==
    {"a", "b", "c", "d", "e", "g", "h", "i", "k", "l", "m", "n", "o", "p", "r",
     "s", "t", "u", "x", "y", "A", "B", "C", "0", "1", "-", "_"}

\* String.prototype.trim, for the one whitespace character of the model
RECURSIVE TrimLeft(_)
TrimLeft(s) ==
    IF s # <<>> /\ Head(s) = " " THEN TrimLeft(Tail(s)) ELSE s

RECURSIVE TrimRight(_)
TrimRight(s) ==
    IF s # <<>> /\ s[Len(s)] = " " THEN TrimRight(SubSeq(s, 1, Len(s) - 1)) ELSE s

Trim(s) == TrimRight(TrimLeft(s))

\* String.prototype.startsWith
StartsWith(s, prefix) ==
    /\ Len(prefix) <= Len(s)
    /\ SubSeq(s, 1, Len(prefix)) = prefix

\* cache_key.replace(/[^a-zA-Z0-9\-_]/g, "_")
Sanitize(s) ==
    [i \in 1..Len(s) |-> IF s[i] \in SafeChars THEN s[i] ELSE "_"]

\* (variant: every "-" inside a field escaped as "\-" before the join)
RECURSIVE EscapeSeparator(_)
EscapeSeparator(s) ==
    IF s = <<>> THEN <<>>
    ELSE IF Head(s) = "-" THEN <<"\\", "-">> \o EscapeSeparator(Tail(s))
    ELSE <<Head(s)>> \o EscapeSeparator(Tail(s))

CacheKey_Escaped(params) ==
    EscapeSeparator(params.title) \o <<"-">> \o EscapeSeparator(params.author)
        \o <<"-">> \o EscapeSeparator(params.website)
        \o <<"-">> \o EscapeSeparator(params.theme)

\* `${params.title}-${params.author}-${params.website}-${params.theme}`
CacheKey(params) ==
    params.title \o <<"-">> \o params.author \o <<"-">> \o params.website
        \o <<"-">> \o params.theme

\* Math.ceil(x / 1000)
CeilSeconds(x) ==
    IF x >= 0 THEN (x + MsPerSec - 1) \div MsPerSec ELSE -((-x) \div MsPerSec)

----------------------------------------------------------------------------
(* Requests: the decoded query of a GET /og and its headers.               *)

NoStr == <<>>

Query(title, author, website, theme) ==
    [title |-> title, author |-> author, website |-> website, theme |-> theme]

\* the queries of the model's requests (the last has a blank title)
Queries ==
    { Query(Str_a_b, Str_x, Str_y, Str_dark),
      Query(Str_a_u_b, Str_x, Str_y, Str_dark),
      Query(<<" ">>, Str_x, Str_y, Str_dark) }

Referers == {NoStr, <<"o", "/">>, <<"e">>}

validate_og_params(query) ==
    IF query.title = NoStr \/ Len(Trim(query.title)) = 0
    THEN [valid |-> FALSE]
    ELSE IF Len(query.title) > 200
    THEN [valid |-> FALSE]
    ELSE IF query.author # NoStr /\ Len(query.author) > 100
    THEN [valid |-> FALSE]
    ELSE IF query.website # NoStr /\ Len(query.website) > 100
    THEN [valid |-> FALSE]
    ELSE IF query.theme # NoStr /\ query.theme \notin {Str_light, Str_dark}
    THEN [valid |-> FALSE]
    ELSE [valid |-> TRUE,
          params |->
             [title |-> Trim(query.title),
              author |-> IF Trim(query.author) = NoStr
                         THEN Str_Anonymous ELSE Trim(query.author),
              website |-> IF Trim(query.website) = NoStr
                          THEN Str_example_com ELSE Trim(query.website),
              theme |-> IF query.theme = NoStr THEN Str_light ELSE query.theme]]

is_authorized_origin(referer) ==
    IF referer = NoStr \/ env.NODE_ENV # "production"
    THEN TRUE
    ELSE \E origin \in allowed_origins : StartsWith(referer, Trim(origin))

\* the keys the model's valid queries produce
Keys == { CacheKey(validate_og_params(q).params) :
            q \in {qq \in Queries : validate_og_params(qq).valid} }

----------------------------------------------------------------------------
(* The RAM cache: a JavaScript Map keeps its keys in insertion order, and  *)
(* set() of a key that is present replaces the value where it stands.      *)

RamKeys(rc) == {rc[i].key : i \in 1..Len(rc)}

\* the entries of the map
RamEntries(rc) == {rc[i] : i \in 1..Len(rc)}

RamIndex(rc, k) == CHOOSE i \in 1..Len(rc) : rc[i].key = k

\* ram_cache.get(k), for a key that is present
RamGet(rc, k) == rc[RamIndex(rc, k)]

\* (variant: the entry is set only if the key is absent)
RamSet_IfAbsent(rc, k, buffer, timestamp, ttl) ==
    IF k \in RamKeys(rc)
    THEN rc
    ELSE Append(rc, [key |-> k, buffer |-> buffer, timestamp |-> timestamp,
                     ttl |-> ttl])

\* ram_cache.set(k, {buffer, timestamp, ttl})
RamSet(rc, k, buffer, timestamp, ttl) ==
    LET e == [key |-> k, buffer |-> buffer, timestamp |-> timestamp, ttl |-> ttl]
    IN  IF k \in RamKeys(rc)
        THEN [rc EXCEPT ![RamIndex(rc, k)] = e]
        ELSE Append(rc, e)

\* ram_cache.delete(k)
RamDelete(rc, k) == SelectSeq(rc, LAMBDA e : e.key # k)

\* (variant: the pass without its expiry loop)
CleanupExpired_Never(entry, t) == FALSE

\* (variant: every entry judged by the standard TTL)
CleanupExpired_StandardTtl(entry, t) ==
    t - entry.timestamp > CACHE_TTL * MsPerSec

\* the expiry test of cleanup_cache
CleanupExpired(entry, t) == t - entry.timestamp > entry.ttl * MsPerSec

\* (variant: the comparison the wrong way round)
RamFresh_Reversed(entry, t) == t - entry.timestamp > entry.ttl * MsPerSec

\* the freshness test of get_cached_image
RamFresh(entry, t) == t - entry.timestamp < entry.ttl * MsPerSec

\* Array.prototype.sort by timestamp; the sort is stable
RECURSIVE InsertByTimestamp(_, _)
InsertByTimestamp(sorted, e) ==
    IF sorted = <<>> THEN <<e>>
    ELSE IF sorted[Len(sorted)].timestamp <= e.timestamp THEN Append(sorted, e)
    ELSE Append(InsertByTimestamp(SubSeq(sorted, 1, Len(sorted) - 1), e),
                sorted[Len(sorted)])

RECURSIVE SortByTimestamp(_)
SortByTimestamp(rc) ==
    IF rc = <<>> THEN <<>>
    ELSE InsertByTimestamp(SortByTimestamp(SubSeq(rc, 1, Len(rc) - 1)), rc[Len(rc)])

\* (variant: the newest entries first, so that the slice removes the newest)
SortByTimestamp_Descending(rc) ==
    IF rc = <<>> THEN <<>>
    ELSE LET asc == SortByTimestamp(rc)
         IN  [i \in 1..Len(asc) |-> asc[Len(asc) + 1 - i]]

\* Array.from(ram_cache.entries()).sort(([, a], [, b]) => a.timestamp - b.timestamp)
SortedEntries(rc) == SortByTimestamp(rc)

\* the size test of cleanup_cache
TooBig(size) == size > MAX_RAM_CACHE_SIZE

\* (variant: a map that is too big is emptied)
TrimCount_All(size) == size

\* ram_cache.size - MAX_RAM_CACHE_SIZE, the end of the slice of cleanup_cache
TrimCount(size) == size - MAX_RAM_CACHE_SIZE

cleanup_cache_result(rc, t) ==
    LET live == SelectSeq(rc, LAMBDA e : ~CleanupExpired(e, t))
    IN  IF TooBig(Len(live))
        THEN LET entries == SortedEntries(live)
                 to_remove == SubSeq(entries, 1, TrimCount(Len(live)))
                 gone == {to_remove[i].key : i \in 1..Len(to_remove)}
             IN  SelectSeq(live, LAMBDA e : e.key \notin gone)
        ELSE live

----------------------------------------------------------------------------
(* The disk cache: the files of CACHE_DIR.                                 *)

JpgFile(k) == <<Sanitize(k), "jpg">>
PngFile(k) == <<Sanitize(k), "png">>
\* (variant: no legacy path, the second stat looks at the .jpg again)
FileOf_JpgOnly(k, ext) == <<Sanitize(k), "jpg">>

\* join(CACHE_DIR, `${base_name}.${ext}`)
FileOf(k, ext) == <<Sanitize(k), ext>>

Files == {JpgFile(k) : k \in Keys} \cup {PngFile(k) : k \in Keys}

FileExists(d, f) == f \in DOMAIN d

\* fs.writeFile at time t
WriteFile(d, f, buffer, t) ==
    [g \in DOMAIN d \cup {f} |->
        IF g = f THEN [content |-> buffer, mtime |-> t] ELSE d[g]]

\* fs.unlink
Unlink(d, f) == [g \in DOMAIN d \ {f} |-> d[g]]

\* (variant: every file counts as expired)
DiskFresh_Never(file, t) == FALSE

\* (variant: a file whose age equals the TTL counts as expired)
DiskFresh_Strict(file, t) == t - file.mtime < CACHE_TTL * MsPerSec

\* the age test of get_from_disk_cache
DiskFresh(file, t) == t - file.mtime <= CACHE_TTL * MsPerSec

----------------------------------------------------------------------------
(* State after construction.                                               *)

ClientIds == {"unknown", "ip1"}

\* the headers x-forwarded-for and x-real-ip of a request ("" when absent)
IpHeaders == {<<"", "">>, <<"ip1", "">>, <<"", "ip1">>}

\* c.req.header("x-forwarded-for") || c.req.header("x-real-ip") || "unknown"
ClientIp(hdr) ==
    IF hdr[1] # "" THEN hdr[1] ELSE IF hdr[2] # "" THEN hdr[2] ELSE "unknown"

NoLoc == [key |-> NoStr]
NoStore == [expires |-> -1, trusted |-> FALSE, at |-> -1]
NoWindow == [reset_at |-> -1, n |-> 0, log |-> <<>>]

\* what a step records that answers no request and calls no cache function
Quiet == [op |-> "step", key |-> NoStr]

\* (variant: the Upstash limiter is set up whenever its URL is configured)
setup_rate_limiting_AnyEnv(e) ==
    IF e.UPSTASH_REDIS_REST_URL # "" THEN "Ratelimit" ELSE "null"

\* setup_rate_limiting: the value it leaves in the module variable ratelimit
setup_rate_limiting(e) ==
    IF e.NODE_ENV = "production" /\ e.UPSTASH_REDIS_REST_URL # ""
    THEN "Ratelimit"
    ELSE "null"

\* if (ratelimit) app.use("/og", upstash_...) else app.use("/og", fallback_...)
RegisteredMiddleware(rl) ==
    IF rl # "null"
    THEN "upstash_rate_limit_middleware"
    ELSE "fallback_rate_limit_middleware"

\* the process has started with environment e and the files d in CACHE_DIR
Started(e, d) ==
    /\ env = e
    /\ ratelimit = setup_rate_limiting(e)
    /\ og_middleware = RegisteredMiddleware(setup_rate_limiting(e))
    /\ disk = d

\* no request has come in yet
NoRequestYet ==
    /\ now = 0
    /\ ram_cache = <<>>
    /\ pending = {}
    /\ request_counts = <<>>
    /\ pc = [p \in Procs |-> "idle"]
    /\ loc = [p \in Procs |-> NoLoc]
    /\ nreq = 0
    /\ stored = [k \in Keys |-> NoStore]
    /\ decisions = [c \in ClientIds |-> NoWindow]
    /\ undisturbed = {}
    /\ last = Quiet

Init ==
    /\ Started(Env(NODE_ENV, "", ""), <<>>)
    /\ NoRequestYet

\* every step records itself in the history
Record(event) == last' = event

\* history: the step a lookup comes directly after
Before ==
    [op |-> last.op, key |-> last.key,
     disk |-> last.op = "lookup" /\ last.hit /\ last.source = "disk"]

\* a request is taken by the first free slot (the slots are interchangeable)
Free(p) ==
    /\ pc[p] = "idle"
    /\ \A q \in Procs : pc[q] = "idle" => p <= q

\* the request of slot p has been answered
Finish(p) ==
    /\ pc' = [pc EXCEPT ![p] = "idle"]
    /\ loc' = [loc EXCEPT ![p] = NoLoc]
    /\ undisturbed' = {}

\* the request of slot p suspends on its next await
Goto(p, label, locals) ==
    /\ pc' = [pc EXCEPT ![p] = label]
    /\ loc' = [loc EXCEPT ![p] = locals]
    /\ undisturbed' = undisturbed \cap {p}

\* the request of slot p suspends on the first await of a cache operation
Begin(p, label, locals) ==
    /\ pc' = [pc EXCEPT ![p] = label]
    /\ loc' = [loc EXCEPT ![p] = locals]
    /\ undisturbed' = {p}

\* a step of no request: the clock, the cleanup timer, a detached fs call
Background ==
    /\ undisturbed' = {}
    /\ UNCHANGED <<startup, pc, loc>>

----------------------------------------------------------------------------
(* The clock and the cleanup timer.                                        *)

\* history: of the times a client was admitted at, those less than
\* window_ms before t
Recent(log, t) == SelectSeq(log, LAMBDA at : at > t - window_ms)

\* history: the admissions of each client that lie less than window_ms
\* before t
RecentOnly(d, t) == [c \in ClientIds |-> [d[c] EXCEPT !.log = Recent(@, t)]]

Tick ==
    /\ now + MsPerSec <= MaxTick * MsPerSec
    /\ now' = now + MsPerSec
    /\ decisions' = RecentOnly(decisions, now')
    /\ Record(Quiet)
    /\ Background
    /\ UNCHANGED <<startup, ram_cache, disk, pending, request_counts, nreq,
                   stored>>

\* the clock moves on by half a window of the limiter
TickPart ==
    /\ now + window_ms \div 2 <= MaxTick * MsPerSec
    /\ now' = now + window_ms \div 2
    /\ decisions' = RecentOnly(decisions, now')
    /\ Record(Quiet)
    /\ Background
    /\ UNCHANGED <<startup, ram_cache, disk, pending, request_counts, nreq,
                   stored>>

\* setInterval(cleanup_cache, ...)
cleanup_cache ==
    /\ ram_cache' = cleanup_cache_result(ram_cache, now)
    /\ Record([op |-> "cleanup_cache", key |-> NoStr,
               size |-> Len(ram_cache),
               live |-> Len(SelectSeq(ram_cache,
                                      LAMBDA e : ~CleanupExpired(e, now))),
               read |-> IF last.op = "lookup" /\ last.hit /\ last.source = "ram"
                        THEN last.key ELSE NoStr,
               trimmed_at |->
                  {e.timestamp : e \in {x \in RamEntries(ram_cache) :
                       /\ ~CleanupExpired(x, now)
                       /\ x.key \notin RamKeys(cleanup_cache_result(ram_cache, now))}}])
    /\ Background
    /\ UNCHANGED <<startup, now, disk, pending, request_counts, nreq,
                   stored, decisions>>

----------------------------------------------------------------------------
(* The rate limiter in front of /og.                                       *)

\* (variant: the window is over at its reset time already)
WindowOver_Inclusive(client_data, t) == t >= client_data.reset_time

\* the window test of fallback_rate_limit_middleware
WindowOver(client_data, t) == t > client_data.reset_time

\* (variant: one request too many)
LimitReached_OffByOne(client_data) == client_data.count > max_requests

\* the count test of fallback_rate_limit_middleware
LimitReached(client_data) == client_data.count >= max_requests

\* (variant: the count++ left out)
RateLimitDecision_NoCount(counts, client_ip, t) ==
    IF client_ip \notin DOMAIN counts \/ WindowOver(counts[client_ip], t)
    THEN "reset"
    ELSE IF LimitReached(counts[client_ip]) THEN "reject" ELSE "next"

\* what fallback_rate_limit_middleware decides: "reset", "reject" or "count"
RateLimitDecision(counts, client_ip, t) ==
    IF client_ip \notin DOMAIN counts \/ WindowOver(counts[client_ip], t)
    THEN "reset"
    ELSE IF LimitReached(counts[client_ip]) THEN "reject" ELSE "count"

\* (variant: the 429 is not returned, the middleware falls through to next())
CallsNext_Always(decision) == decision = decision

\* whether the middleware goes on to next() after its decision
CallsNext(decision) == decision # "reject"

\* history: the decisions of one client in the window that the claim describes
NextWindow(w, t) ==
    IF w = NoWindow \/ t > w.reset_at
    THEN [w EXCEPT !.reset_at = t + window_ms, !.n = 1]
    ELSE [w EXCEPT !.n = w.n + 1]

\* history: the time t joins the admissions of a client when it is admitted
Logged(w, admitted, t) ==
    IF admitted THEN [w EXCEPT !.log = Append(Recent(@, t), t)] ELSE w

\* (variant: a reset drops the counters of all other clients)
NextCounts_ResetAll(counts, client_ip, decision, t) ==
    CASE decision = "reset" ->
           [c \in {client_ip} |-> [count |-> 1, reset_time |-> t + window_ms]]
      [] decision = "count" -> [counts EXCEPT ![client_ip].count = @ + 1]
      [] OTHER -> counts

\* (variant: a rejection starts the window of the client again)
NextCounts_RejectExtends(counts, client_ip, decision, t) ==
    CASE decision = "reset" ->
           [c \in DOMAIN counts \cup {client_ip} |->
              IF c = client_ip
              THEN [count |-> 1, reset_time |-> t + window_ms]
              ELSE counts[c]]
      [] decision = "count" -> [counts EXCEPT ![client_ip].count = @ + 1]
      [] OTHER -> [counts EXCEPT ![client_ip].reset_time = t + window_ms]

\* the Map request_counts after the decision: request_counts.set on a reset,
\* client_data.count++ on an admission inside the window, nothing on a 429
NextCounts(counts, client_ip, decision, t) ==
    CASE decision = "reset" ->
           [c \in DOMAIN counts \cup {client_ip} |->
              IF c = client_ip
              THEN [count |-> 1, reset_time |-> t + window_ms]
              ELSE counts[c]]
      [] decision = "count" -> [counts EXCEPT ![client_ip].count = @ + 1]
      [] OTHER -> counts

fallback_rate_limit_middleware(p, hdr) ==
    LET client_ip == ClientIp(hdr)
        decision == RateLimitDecision(request_counts, client_ip, now)
        client_data == request_counts[client_ip]
    IN  /\ og_middleware = "fallback_rate_limit_middleware"
        /\ Free(p)
        /\ nreq' = nreq + 1
        /\ decisions' = [decisions EXCEPT
                            ![client_ip] = Logged(NextWindow(@, now),
                                                  decision # "reject", now)]
        /\ request_counts' = NextCounts(request_counts, client_ip, decision, now)
        /\ IF CallsNext(decision)
           THEN Goto(p, "og_handler",
                     [key |-> NoStr, admitted |-> decision # "reject",
                      counted |-> request_counts' # request_counts])
           ELSE Finish(p)
        /\ Record([op |-> "rate_limit", key |-> NoStr, client |-> client_ip,
                   admitted |-> decision # "reject",
                   status |-> IF decision = "reject" THEN 429 ELSE 0,
                   retry_after |-> IF decision = "reject"
                                   THEN CeilSeconds(client_data.reset_time - now)
                                   ELSE 0,
                   count |-> IF decision = "reject" THEN client_data.count ELSE 0,
                   nth |-> decisions'[client_ip].n,
                   prev_n |-> decisions[client_ip].n])
        /\ UNCHANGED <<startup, now, ram_cache, disk, pending, stored>>

\* upstash_rate_limit_middleware, up to await ratelimit.limit(client_ip)
upstash_rate_limit_middleware(p, hdr) ==
    /\ og_middleware = "upstash_rate_limit_middleware"
    /\ Free(p)
    /\ nreq' = nreq + 1
    /\ IF ratelimit = "null"
       THEN Goto(p, "og_handler",
                 [key |-> NoStr, admitted |-> TRUE, counted |-> FALSE])
       ELSE Goto(p, "ratelimit_limit",
                 [key |-> NoStr, client |-> ClientIp(hdr),
                  after_error |-> last.op = "upstash_error"])
    /\ Record(Quiet)
    /\ UNCHANGED <<startup, now, ram_cache, disk, pending, request_counts,
                   stored, decisions>>

\* what the call of the Upstash service may come to: success true or false,
\* or a rejected promise
LimitOutcomes == {"success", "limited", "error"}

\* (variant: the call in a try/catch that goes on to next() when it fails)
LimitCallsNext_FailOpen(outcome) == outcome # "limited"

\* whether upstash_rate_limit_middleware goes on to next(): the call has
\* returned, and with success true
LimitCallsNext(outcome) == outcome = "success"

\* await ratelimit.limit(client_ip) has settled; an error is thrown out of
\* the middleware and the framework answers 500 (history: after_error, the
\* request came in directly after a call that failed)
ratelimit_limit(p, outcome) ==
    /\ pc[p] = "ratelimit_limit"
    /\ IF LimitCallsNext(outcome)
       THEN /\ Goto(p, "og_handler",
                    [key |-> NoStr, admitted |-> TRUE, counted |-> TRUE])
            /\ Record([op |-> "upstash_limit", key |-> NoStr,
                       client |-> loc[p].client, admitted |-> TRUE,
                       status |-> 0, outcome |-> outcome,
                       after_error |-> loc[p].after_error])
       ELSE IF outcome = "limited"
       THEN /\ Finish(p)
            /\ Record([op |-> "upstash_limit", key |-> NoStr,
                       client |-> loc[p].client, admitted |-> FALSE,
                       status |-> 429, outcome |-> outcome,
                       after_error |-> loc[p].after_error])
       ELSE /\ Finish(p)
            /\ Record([op |-> "upstash_error", key |-> NoStr,
                       client |-> loc[p].client, status |-> 500,
                       outcome |-> outcome])
    /\ UNCHANGED <<startup, now, ram_cache, disk, pending, request_counts, nreq,
                   stored, decisions>>

----------------------------------------------------------------------------
(* GET /og: og_routes.get("/"), with get_cached_image, get_from_disk_cache *)
(* and cache_image in line.                                                *)

\* (variant: the max-age taken from the TTL of the cache entry)
CacheControlMaxAge_EntryTtl(authorized) ==
    IF authorized THEN CACHE_TTL ELSE SHORT_CACHE_TTL

\* the max-age of the Cache-Control header
CacheControlMaxAge(authorized) ==
    IF authorized THEN HTTP_CACHE_TTL ELSE SHORT_CACHE_TTL

\* (variant: every entry gets the standard TTL)
StoreTtl_Standard(authorized) == CACHE_TTL

\* the ttl cache_image gives the RAM entry
StoreTtl(authorized) == IF authorized THEN CACHE_TTL ELSE SHORT_CACHE_TTL

\* whether cache_image also saves to disk
SavesToDisk(authorized) == authorized

\* (variant: a promoted entry gets the short TTL)
PromoteTtl_Short == SHORT_CACHE_TTL

\* the ttl get_cached_image gives an entry it promotes from disk
PromoteTtl == CACHE_TTL

\* the handler up to its first await: validation, key, the RAM lookup
og_handler(p, query, referer) ==
    LET validation == validate_og_params(query)
        cache_key == CacheKey(validation.params)
        authorized == is_authorized_origin(referer)
        ram_hit == /\ cache_key \in RamKeys(ram_cache)
                   /\ RamFresh(RamGet(ram_cache, cache_key), now)
    IN  /\ pc[p] = "og_handler"
        /\ IF ~validation.valid
           THEN /\ Finish(p)
                /\ Record([op |-> "og_invalid", key |-> NoStr, status |-> 400,
                           passed |-> loc[p].admitted,
                           counted |-> loc[p].counted])
                /\ UNCHANGED ram_cache
           ELSE IF ram_hit
           THEN /\ Finish(p)
                /\ Record([op |-> "lookup", key |-> cache_key, hit |-> TRUE,
                           source |-> "ram",
                           buffer |-> RamGet(ram_cache, cache_key).buffer,
                           status |-> 200,
                           max_age |-> CacheControlMaxAge(authorized),
                           authorized |-> authorized, err |-> FALSE,
                           passed |-> loc[p].admitted, began |-> TRUE,
                           alone |-> TRUE, after |-> Before])
                /\ UNCHANGED ram_cache
           ELSE /\ ram_cache' = RamDelete(ram_cache, cache_key)
                /\ Begin(p, "stat_jpg",
                        [key |-> cache_key, admitted |-> loc[p].admitted,
                         authorized |-> authorized, ext |-> "jpg", err |-> FALSE,
                         miss |-> FALSE])
                /\ Record([op |-> "lookup_start", key |-> cache_key,
                           passed |-> loc[p].admitted, began |-> TRUE,
                           after |-> Before])
        /\ UNCHANGED <<startup, now, disk, pending, request_counts, nreq, stored, decisions>>

\* (variant: the disk hit is answered without the ram_cache.set)
DiskHit_NoPromotion(p, buffer) ==
    /\ ram_cache' = ram_cache
    /\ Finish(p)
    /\ Record([op |-> "lookup", key |-> loc[p].key, hit |-> TRUE,
               source |-> "disk", buffer |-> buffer, status |-> 200,
               max_age |-> CacheControlMaxAge(loc[p].authorized),
               authorized |-> loc[p].authorized, err |-> loc[p].err,
               passed |-> loc[p].admitted, began |-> FALSE,
               alone |-> p \in undisturbed, after |-> Before])

\* get_cached_image got a buffer from get_from_disk_cache: promote and respond
DiskHit(p, buffer) ==
    /\ ram_cache' = RamSet(ram_cache, loc[p].key, buffer, now, PromoteTtl)
    /\ Finish(p)
    /\ Record([op |-> "lookup", key |-> loc[p].key, hit |-> TRUE,
               source |-> "disk", buffer |-> buffer, status |-> 200,
               max_age |-> CacheControlMaxAge(loc[p].authorized),
               authorized |-> loc[p].authorized, err |-> loc[p].err,
               passed |-> loc[p].admitted, began |-> FALSE,
               alone |-> p \in undisturbed, after |-> Before])

\* (variant: get_from_disk_cache without its outer catch: the error of a
\* failed fs call reaches the catch of the handler, which answers 500)
DiskMiss_Rethrow(p, err) ==
    /\ ram_cache' = ram_cache
    /\ IF err
       THEN /\ Finish(p)
            /\ Record([op |-> "og_error", key |-> loc[p].key, status |-> 500])
       ELSE /\ Goto(p, "render", [loc[p] EXCEPT !.err = err, !.miss = TRUE])
            /\ Record([op |-> "lookup", key |-> loc[p].key, hit |-> FALSE,
                       err |-> err, passed |-> loc[p].admitted,
                       began |-> FALSE, alone |-> p \in undisturbed,
                       after |-> Before])

\* (variant: single flight, a miss on a key that another request is rendering
\* does not start a second render)
DiskMiss_SingleFlight(p, err) ==
    /\ ram_cache' = ram_cache
    /\ IF \E q \in Procs \ {p} : pc[q] = "render" /\ loc[q].key = loc[p].key
       THEN Finish(p)
       ELSE Goto(p, "render", [loc[p] EXCEPT !.err = err, !.miss = TRUE])
    /\ Record([op |-> "lookup", key |-> loc[p].key, hit |-> FALSE, err |-> err,
               passed |-> loc[p].admitted, began |-> FALSE,
               alone |-> p \in undisturbed, after |-> Before])

\* get_cached_image got null: the handler goes on to render
DiskMiss(p, err) ==
    /\ ram_cache' = ram_cache
    /\ Goto(p, "render", [loc[p] EXCEPT !.err = err, !.miss = TRUE])
    /\ Record([op |-> "lookup", key |-> loc[p].key, hit |-> FALSE, err |-> err,
               passed |-> loc[p].admitted, began |-> FALSE,
               alone |-> p \in undisturbed, after |-> Before])

\* await fs.stat(jpg), inside the inner try
stat_jpg(p, ok) ==
    LET f == JpgFile(loc[p].key)
    IN  /\ pc[p] = "stat_jpg"
        /\ ok \/ FileExists(disk, f)
        /\ IF FileExists(disk, f) /\ ok
           THEN IF DiskFresh(disk[f], now)
                THEN Goto(p, "read_jpg", loc[p])
                ELSE Goto(p, "unlink_jpg", loc[p])
           ELSE Goto(p, "stat", [loc[p] EXCEPT !.ext = "png", !.err = @ \/ ~ok])
        /\ Record(Quiet)
        /\ UNCHANGED <<startup, now, ram_cache, disk, pending, request_counts, nreq,
                       stored, decisions>>

\* return await fs.readFile(jpg), inside the inner try
read_jpg(p, ok) ==
    LET f == JpgFile(loc[p].key)
    IN  /\ pc[p] = "read_jpg"
        /\ ok \/ FileExists(disk, f)
        /\ IF FileExists(disk, f) /\ ok
           THEN DiskHit(p, disk[f].content)
           ELSE /\ Goto(p, "stat", [loc[p] EXCEPT !.ext = "png", !.err = @ \/ ~ok])
                /\ Record(Quiet)
                /\ UNCHANGED ram_cache
        /\ UNCHANGED <<startup, now, disk, pending, request_counts, nreq, stored, decisions>>

\* await fs.unlink(jpg).catch(() => {}), inside the inner try
unlink_jpg(p, ok) ==
    LET f == JpgFile(loc[p].key)
    IN  /\ pc[p] = "unlink_jpg"
        /\ ok \/ FileExists(disk, f)
        /\ disk' = IF ok THEN Unlink(disk, f) ELSE disk
        /\ Goto(p, "stat", [loc[p] EXCEPT !.err = @ \/ ~ok])
        /\ Record(Quiet)
        /\ UNCHANGED <<startup, now, ram_cache, pending, request_counts, nreq, stored,
                       decisions>>

\* const stats = await fs.stat(file_path), after the inner try
stat_file(p, ok) ==
    LET f == FileOf(loc[p].key, loc[p].ext)
    IN  /\ pc[p] = "stat"
        /\ ok \/ FileExists(disk, f)
        /\ IF FileExists(disk, f) /\ ok
           THEN /\ IF DiskFresh(disk[f], now)
                   THEN Goto(p, "read", loc[p])
                   ELSE Goto(p, "unlink", loc[p])
                /\ Record(Quiet)
                /\ UNCHANGED ram_cache
           ELSE DiskMiss(p, loc[p].err \/ ~ok)
        /\ UNCHANGED <<startup, now, disk, pending, request_counts, nreq, stored, decisions>>

\* await fs.unlink(file_path).catch(() => {}); return null
unlink_file(p, ok) ==
    LET f == FileOf(loc[p].key, loc[p].ext)
    IN  /\ pc[p] = "unlink"
        /\ ok \/ FileExists(disk, f)
        /\ disk' = IF ok THEN Unlink(disk, f) ELSE disk
        /\ DiskMiss(p, loc[p].err \/ ~ok)
        /\ UNCHANGED <<startup, now, pending, request_counts, nreq, stored, decisions>>

\* return await fs.readFile(file_path); the outer catch returns null
read_file(p, ok) ==
    LET f == FileOf(loc[p].key, loc[p].ext)
    IN  /\ pc[p] = "read"
        /\ ok \/ FileExists(disk, f)
        /\ IF FileExists(disk, f) /\ ok
           THEN DiskHit(p, disk[f].content)
           ELSE DiskMiss(p, loc[p].err \/ ~ok)
        /\ UNCHANGED <<startup, now, disk, pending, request_counts, nreq, stored, decisions>>

\* the images the caches hold or are about to hold
ImagesInUse ==
    {ram_cache[i].buffer : i \in 1..Len(ram_cache)}
        \cup {disk[f].content : f \in DOMAIN disk}
        \cup {w.buffer : w \in {x \in pending : x.kind = "writeFile"}}

\* generate_image returns an image in use or, of those that are not, the first
\* (which of the unused images it is makes no difference to any later step)
RenderChoices ==
    ImagesInUse \cup
        (IF Payloads \subseteq ImagesInUse THEN {}
         ELSE {CHOOSE b \in Payloads \ ImagesInUse :
                  \A c \in Payloads \ ImagesInUse : b <= c})

\* await generate_image(...) returned: cache_image, then the response
render_done(p, buffer) ==
    LET cache_key == loc[p].key
        authorized == loc[p].authorized
        ttl == StoreTtl(authorized)
    IN  /\ pc[p] = "render"
        /\ ram_cache' = RamSet(ram_cache, cache_key, buffer, now, ttl)
        /\ pending' = IF SavesToDisk(authorized)
                      THEN pending \cup {[kind |-> "writeFile",
                                          file |-> JpgFile(cache_key),
                                          buffer |-> buffer]}
                      ELSE pending
        /\ stored' = [stored EXCEPT ![cache_key] =
                         [expires |-> now + ttl * MsPerSec,
                          trusted |-> @.trusted \/ authorized,
                          at |-> now]]
        /\ Finish(p)
        /\ Record([op |-> "cache_image", key |-> cache_key, buffer |-> buffer,
                   authorized |-> authorized, status |-> 200,
                   max_age |-> CacheControlMaxAge(authorized),
                   passed |-> loc[p].admitted, after_miss |-> loc[p].miss,
                   swept |-> last.op = "cleanup_cache",
                   replaced |-> IF cache_key \in RamKeys(ram_cache)
                                THEN RamGet(ram_cache, cache_key).ttl ELSE 0])
        /\ UNCHANGED <<startup, now, disk, request_counts, nreq, decisions>>

\* await generate_image(...) threw: the handler answers 500
render_failed(p) ==
    /\ pc[p] = "render"
    /\ Finish(p)
    /\ Record([op |-> "og_error", key |-> loc[p].key, status |-> 500])
    /\ UNCHANGED <<startup, now, ram_cache, disk, pending, request_counts, nreq, stored,
                   decisions>>

\* a detached fs call completes: the writeFile of save_to_disk_cache, or an
\* unlink that a failed Promise.all no longer waits for
fs_detached(w, ok) ==
    /\ w \in pending
    /\ pending' = pending \ {w}
    /\ disk' = IF ~ok THEN disk
               ELSE IF w.kind = "writeFile"
               THEN WriteFile(disk, w.file, w.buffer, now)
               ELSE Unlink(disk, w.file)
    /\ Record(Quiet)
    /\ Background
    /\ UNCHANGED <<startup, now, ram_cache, request_counts, nreq, stored, decisions>>

----------------------------------------------------------------------------
(* The cache administration routes.                                        *)

Str_Bearer == <<"B", "e", "a", "r", "e", "r", " ">>

\* `Bearer ${process.env.ADMIN_TOKEN}`
BearerOf(secret) == Str_Bearer \o secret

\* the Authorization headers the model's requests carry (NoStr: none)
Tokens == {NoStr, BearerOf(ADMIN_TOKEN), BearerOf(<<"t">>), ADMIN_TOKEN}

\* (variant: any Authorization header is accepted)
require_auth_AnyToken(token) == token # NoStr

Str_undefined == <<"u", "n", "d", "e", "f", "i", "n", "e", "d">>

\* ${v} in a template literal: undefined is written out as "undefined"
TemplateValue(v) == IF v = Unset THEN Str_undefined ELSE v[1]

\* require_auth: whether the request goes on to the handler
require_auth(token) ==
    ~(token = NoStr \/ token # BearerOf(TemplateValue(env.ADMIN_TOKEN)))

\* decodeURIComponent, for the escapes the model's requests use
RECURSIVE decodeURIComponent(_)
decodeURIComponent(s) ==
    IF s = <<>> THEN <<>>
    ELSE IF Len(s) >= 3 /\ SubSeq(s, 1, 3) = <<"%", "2", "0">>
    THEN <<" ">> \o decodeURIComponent(SubSeq(s, 4, Len(s)))
    ELSE <<Head(s)>> \o decodeURIComponent(Tail(s))

\* encodeURIComponent, for the same escapes
RECURSIVE encodeURIComponent(_)
encodeURIComponent(s) ==
    IF s = <<>> THEN <<>>
    ELSE IF Head(s) = " "
    THEN <<"%", "2", "0">> \o encodeURIComponent(Tail(s))
    ELSE <<Head(s)>> \o encodeURIComponent(Tail(s))

\* the :key parameters of the model's DELETE /cache/:key requests
KeyParams == Keys \cup {encodeURIComponent(k) : k \in Keys}

\* cache_routes.delete("/"), up to its first await
clear_all(p, token) ==
    /\ Free(p)
    /\ nreq' = nreq + 1
    /\ IF require_auth(token)
       THEN /\ ram_cache' = <<>>
            /\ Begin(p, "clear_readdir", [key |-> NoStr, ram_cleared |-> Len(ram_cache)])
            /\ Record([op |-> "clear_start", key |-> NoStr, token |-> token])
       ELSE /\ ram_cache' = ram_cache
            /\ Finish(p)
            /\ Record([op |-> "clear", key |-> NoStr, token |-> token,
                       status |-> 401])
    /\ UNCHANGED <<startup, now, disk, pending, request_counts, stored, decisions>>

\* await fs.readdir(CACHE_DIR) of clear-all, and the unlinks it starts
clear_readdir(p, ok) ==
    /\ pc[p] = "clear_readdir"
    /\ IF ok /\ DOMAIN disk # {}
       THEN /\ Goto(p, "clear_unlink",
                    [loc[p] EXCEPT !.key = NoStr] @@
                    [files |-> DOMAIN disk, image_files |-> Cardinality(DOMAIN disk),
                     removed |-> 0])
            /\ Record(Quiet)
       ELSE /\ Finish(p)
            /\ Record([op |-> "clear", key |-> NoStr, status |-> 200,
                       ram_cleared_entries |-> loc[p].ram_cleared,
                       disk_cleared_entries |-> 0, disk_removed |-> 0,
                       ok |-> ok, alone |-> p \in undisturbed])
    /\ UNCHANGED <<startup, now, ram_cache, disk, pending, request_counts, nreq, stored,
                   decisions>>

\* one fs.unlink of the Promise.all of clear-all completes (history: removed
\* counts the files this request has unlinked)
clear_unlink(p, f, ok) ==
    /\ pc[p] = "clear_unlink"
    /\ f \in loc[p].files
    /\ ok \/ FileExists(disk, f)
    /\ IF FileExists(disk, f) /\ ok
       THEN /\ disk' = Unlink(disk, f)
            /\ pending' = pending
            /\ IF loc[p].files = {f}
               THEN /\ Finish(p)
                    /\ Record([op |-> "clear", key |-> NoStr, status |-> 200,
                               ram_cleared_entries |-> loc[p].ram_cleared,
                               disk_cleared_entries |-> loc[p].image_files,
                               disk_removed |-> loc[p].removed + 1,
                               ok |-> TRUE, alone |-> p \in undisturbed])
               ELSE /\ Goto(p, "clear_unlink",
                            [loc[p] EXCEPT !.files = @ \ {f}, !.removed = @ + 1])
                    /\ Record(Quiet)
       ELSE /\ disk' = disk
            /\ pending' = pending \cup
                  {[kind |-> "unlink", file |-> g, buffer |-> 0] :
                       g \in loc[p].files \ {f}}
            /\ Finish(p)
            /\ Record([op |-> "clear", key |-> NoStr, status |-> 200,
                       ram_cleared_entries |-> loc[p].ram_cleared,
                       disk_cleared_entries |-> 0,
                       disk_removed |-> loc[p].removed, ok |-> FALSE,
                       alone |-> p \in undisturbed])
    /\ UNCHANGED <<startup, now, ram_cache, request_counts, nreq, stored, decisions>>

\* cache_routes.delete("/:key"), up to its first await
delete_one(p, token, param) ==
    LET decoded_key == decodeURIComponent(param)
    IN  /\ Free(p)
        /\ nreq' = nreq + 1
        /\ IF require_auth(token)
           THEN /\ ram_cache' = RamDelete(ram_cache, decoded_key)
                /\ Begin(p, "del_jpg",
                        [key |-> decoded_key,
                         ram_deleted |-> decoded_key \in RamKeys(ram_cache)])
                /\ Record([op |-> "delete_start", key |-> decoded_key,
                           token |-> token])
           ELSE /\ ram_cache' = ram_cache
                /\ Finish(p)
                /\ Record([op |-> "delete", key |-> decoded_key, token |-> token,
                           status |-> 401])
        /\ UNCHANGED <<startup, now, disk, pending, request_counts, stored, decisions>>

\* await fs.unlink(jpg) of delete-one
del_jpg(p, ok) ==
    LET f == JpgFile(loc[p].key)
    IN  /\ pc[p] = "del_jpg"
        /\ ok \/ FileExists(disk, f)
        /\ IF FileExists(disk, f) /\ ok
           THEN /\ disk' = Unlink(disk, f)
                /\ Finish(p)
                /\ Record([op |-> "delete", key |-> loc[p].key, status |-> 200,
                           ram_deleted |-> loc[p].ram_deleted,
                           disk_deleted |-> TRUE, alone |-> p \in undisturbed])
           ELSE /\ disk' = disk
                /\ Goto(p, "del_png", loc[p])
                /\ Record(Quiet)
        /\ UNCHANGED <<startup, now, ram_cache, pending, request_counts, nreq, stored,
                       decisions>>

\* await fs.unlink(png) of delete-one
del_png(p, ok) ==
    LET f == PngFile(loc[p].key)
        done == FileExists(disk, f) /\ ok
    IN  /\ pc[p] = "del_png"
        /\ ok \/ FileExists(disk, f)
        /\ disk' = IF done THEN Unlink(disk, f) ELSE disk
        /\ Finish(p)
        /\ Record([op |-> "delete", key |-> loc[p].key, status |-> 200,
                   ram_deleted |-> loc[p].ram_deleted, disk_deleted |-> done,
                   alone |-> p \in undisturbed])
        /\ UNCHANGED <<startup, now, ram_cache, pending, request_counts, nreq, stored,
                       decisions>>

\* (variant: the status route registered like the two delete routes)
StatusRequiresAuth_Yes == TRUE

\* whether cache_routes.get("/") is registered behind require_auth
StatusRequiresAuth == FALSE

\* cache_routes.get("/"), up to its first await
cache_status(p, token) ==
    /\ Free(p)
    /\ nreq' = nreq + 1
    /\ IF StatusRequiresAuth /\ ~require_auth(token)
       THEN /\ Finish(p)
            /\ Record([op |-> "status", key |-> NoStr, token |-> token,
                       status |-> 401])
       ELSE /\ Begin(p, "status_readdir",
                    [key |-> NoStr, token |-> token,
                     ram_entries |-> [i \in 1..Len(ram_cache) |-> ram_cache[i].key]])
            /\ Record([op |-> "status_start", key |-> NoStr, token |-> token])
    /\ UNCHANGED <<startup, now, ram_cache, disk, pending, request_counts, stored, decisions>>

\* await fs.readdir(CACHE_DIR) of the status route, and its response
status_readdir(p, ok) ==
    /\ pc[p] = "status_readdir"
    /\ Finish(p)
    /\ Record([op |-> "status", key |-> NoStr, token |-> loc[p].token,
               status |-> 200, alone |-> p \in undisturbed,
               ram_keys |-> loc[p].ram_entries,
               disk_files |-> IF ok THEN DOMAIN disk ELSE {}])
    /\ UNCHANGED <<startup, now, ram_cache, disk, pending, request_counts, nreq, stored,
                   decisions>>

----------------------------------------------------------------------------
(* The steps of a GET /og, for requests whose client headers are drawn from *)
(* Hdrs, whose fs calls fail or not as drawn from Oks, and whose unlink of *)
(* an expired file (its error is swallowed) fails or not as in UnlinkOks.  *)
OgSteps(Hdrs, Oks, UnlinkOks, limit) ==
    \/ \E p \in Procs, hdr \in Hdrs :
          nreq < limit /\ fallback_rate_limit_middleware(p, hdr)
    \/ \E p \in Procs, query \in Queries, referer \in Referers :
          og_handler(p, query, referer)
    \/ \E p \in Procs, ok \in Oks : stat_jpg(p, ok)
    \/ \E p \in Procs, ok \in Oks : read_jpg(p, ok)
    \/ \E p \in Procs, ok \in UnlinkOks : unlink_jpg(p, ok)
    \/ \E p \in Procs, ok \in Oks : stat_file(p, ok)
    \/ \E p \in Procs, ok \in UnlinkOks : unlink_file(p, ok)
    \/ \E p \in Procs, ok \in Oks : read_file(p, ok)
    \/ \E p \in Procs, buffer \in RenderChoices : render_done(p, buffer)
    \/ \E p \in Procs : render_failed(p)
    \/ \E w \in pending, ok \in Oks : fs_detached(w, ok)

(* The steps of the administration routes.                                 *)
AdminSteps(Oks, limit) ==
    \/ \E p \in Procs, token \in Tokens : nreq < limit /\ clear_all(p, token)
    \/ \E p \in Procs, ok \in Oks : clear_readdir(p, ok)
    \/ \E p \in Procs, f \in Files, ok \in Oks : clear_unlink(p, f, ok)
    \/ \E p \in Procs, token \in Tokens, param \in KeyParams :
          nreq < limit /\ delete_one(p, token, param)
    \/ \E p \in Procs, ok \in Oks : del_jpg(p, ok)
    \/ \E p \in Procs, ok \in Oks : del_png(p, ok)
    \/ \E p \in Procs, token \in Tokens : nreq < limit /\ cache_status(p, token)
    \/ \E p \in Procs, ok \in Oks : status_readdir(p, ok)

(* Spec: the /og traffic of one client, the clock and the cleanup timer,   *)
(* on a file system whose calls succeed, but for the unlink of an expired  *)
(* file, which may fail.                                                   *)
Next ==
    \/ Tick
    \/ cleanup_cache
    \/ OgSteps({<<"", "">>}, {TRUE}, BOOLEAN, MaxReqs)

Spec == Init /\ [][Next]_vars

(* SpecAdmin: the administration routes beside /og traffic and the clock.  *)
NextAdmin ==
    \/ Tick
    \/ OgSteps({<<"", "">>}, {TRUE}, BOOLEAN, MaxAdminReqs)
    \/ AdminSteps({TRUE}, MaxAdminReqs)

SpecAdmin == Init /\ [][NextAdmin]_vars

(* SpecLimiter: the rate limiter alone, with requests of several clients   *)
(* that the handler turns down as invalid.                                 *)
InvalidQueries == {q \in Queries : ~validate_og_params(q).valid}

NextLimiter ==
    \/ Tick
    \/ \E p \in Procs, hdr \in IpHeaders :
          nreq < MaxDecisions /\ fallback_rate_limit_middleware(p, hdr)
    \/ \E p \in Procs, query \in InvalidQueries, referer \in Referers :
          og_handler(p, query, referer)

SpecLimiter == Init /\ [][NextLimiter]_vars

(* SpecBurst: the in-process limiter with a clock that also moves by half  *)
(* a window, so that requests come shortly before and shortly after the    *)
(* end of a window.                                                        *)
NextBurst ==
    \/ Tick
    \/ TickPart
    \/ \E p \in Procs, hdr \in IpHeaders :
          nreq < MaxBurstReqs /\ fallback_rate_limit_middleware(p, hdr)
    \/ \E p \in Procs, query \in InvalidQueries, referer \in Referers :
          og_handler(p, query, referer)

SpecBurst == Init /\ [][NextBurst]_vars

(* SpecDisk: one instant of a process that found files in CACHE_DIR when   *)
(* it started: the .jpg of a key, its legacy .png, or both (a .jpg comes to *)
(* stand beside a fresh .png when a read of the .png failed and the image  *)
(* was rendered again). /og requests, authorized delete-one and clear-all; *)
(* an unlink of clear-all may fail.                                        *)
StartFile(f) == [content |-> IF f[2] = "jpg" THEN 1 ELSE 2, mtime |-> 0]

StartDisks == {[f \in F |-> StartFile(f)] : F \in SUBSET Files}

InitDisk ==
    /\ \E d \in StartDisks : Started(Env(NODE_ENV, "", ""), d)
    /\ NoRequestYet

NextDisk ==
    \/ \E p \in Procs :
          nreq < MaxDiskReqs /\ fallback_rate_limit_middleware(p, <<"", "">>)
    \/ \E p \in Procs, query \in Queries, referer \in Referers :
          og_handler(p, query, referer)
    \/ \E p \in Procs : stat_jpg(p, TRUE)
    \/ \E p \in Procs : read_jpg(p, TRUE)
    \/ \E p \in Procs : stat_file(p, TRUE)
    \/ \E p \in Procs : read_file(p, TRUE)
    \/ \E p \in Procs, buffer \in RenderChoices : render_done(p, buffer)
    \/ \E p \in Procs : render_failed(p)
    \/ \E w \in pending : fs_detached(w, TRUE)
    \/ \E p \in Procs, param \in KeyParams :
          nreq < MaxDiskReqs /\ delete_one(p, BearerOf(ADMIN_TOKEN), param)
    \/ \E p \in Procs : del_jpg(p, TRUE)
    \/ \E p \in Procs : del_png(p, TRUE)
    \/ \E p \in Procs : nreq < MaxDiskReqs /\ clear_all(p, BearerOf(ADMIN_TOKEN))
    \/ \E p \in Procs : clear_readdir(p, TRUE)
    \/ \E p \in Procs, f \in Files, ok \in BOOLEAN : clear_unlink(p, f, ok)

SpecDisk == InitDisk /\ [][NextDisk]_vars

(* SpecUnset: the administration routes of a process that was started      *)
(* without ADMIN_TOKEN, on the files it found in CACHE_DIR; the requests    *)
(* carry no Authorization header, or one of several.                       *)
UnsetTokens == Tokens \cup {BearerOf(Str_undefined), Str_Bearer}

InitUnset ==
    /\ \E d \in StartDisks :
          Started([Env(NODE_ENV, "", "") EXCEPT !.ADMIN_TOKEN = Unset], d)
    /\ NoRequestYet

NextUnset ==
    \/ \E p \in Procs, token \in UnsetTokens :
          nreq < MaxUnsetReqs /\ clear_all(p, token)
    \/ \E p \in Procs : clear_readdir(p, TRUE)
    \/ \E p \in Procs, f \in Files : clear_unlink(p, f, TRUE)
    \/ \E p \in Procs, token \in UnsetTokens, param \in KeyParams :
          nreq < MaxUnsetReqs /\ delete_one(p, token, param)
    \/ \E p \in Procs : del_jpg(p, TRUE)
    \/ \E p \in Procs : del_png(p, TRUE)

SpecUnset == InitUnset /\ [][NextUnset]_vars

(* SpecIO: /og traffic and the clock on a file system whose every call     *)
(* (stat, readFile, unlink, writeFile) may fail, in a process that found   *)
(* files in CACHE_DIR when it started.                                     *)
NextIO ==
    \/ Tick
    \/ OgSteps({<<"", "">>}, BOOLEAN, BOOLEAN, MaxIoReqs)

SpecIO == InitDisk /\ [][NextIO]_vars

(* SpecStrategy: processes started in every environment (production or   *)
(* not, the Upstash URL and token set or not), with the rate limiter that  *)
(* was registered and requests that the handler turns down as invalid.     *)
Envs ==
    {Env(node_env, url, token) :
        node_env \in {"production", "development"},
        url \in {"", "https://u"}, token \in {"", "t"}}

InitStrategy ==
    /\ \E e \in Envs : Started(e, <<>>)
    /\ NoRequestYet

NextStrategy ==
    \/ \E p \in Procs, hdr \in IpHeaders :
          nreq < MaxStrategyReqs /\ fallback_rate_limit_middleware(p, hdr)
    \/ \E p \in Procs, hdr \in IpHeaders :
          nreq < MaxStrategyReqs /\ upstash_rate_limit_middleware(p, hdr)
    \/ \E p \in Procs, outcome \in LimitOutcomes : ratelimit_limit(p, outcome)
    \/ \E p \in Procs, query \in InvalidQueries, referer \in Referers :
          og_handler(p, query, referer)

SpecStrategy == InitStrategy /\ [][NextStrategy]_vars

(* SpecKey: the cache key of the handler and of pre_warm_cache, built for  *)
(* two tuples of validated parameters at a time.                           *)
KeyFields ==
    {<<"A">>, <<"C">>, <<"A", "-", "B">>, <<"B", "-", "C">>}

ParamTuples ==
    {Query(title, author, Str_y, theme) :
        title \in KeyFields, author \in KeyFields, theme \in {Str_light, Str_dark}}

\* const cache_key = `...`, for the parameters a and for the parameters b
build_cache_key(a, b) ==
    /\ Record([op |-> "cache_key", key |-> NoStr, a |-> a, b |-> b,
               key_a |-> CacheKey(a), key_b |-> CacheKey(b)])
    /\ Background
    /\ UNCHANGED <<startup, now, ram_cache, disk, pending, request_counts, nreq,
                   stored, decisions>>

NextKey == \E a \in ParamTuples, b \in ParamTuples : build_cache_key(a, b)

SpecKey == Init /\ [][NextKey]_vars

(* SpecTiers: the two tiers together. /og traffic, the clock and the       *)
(* cleanup timer in a process that found files in CACHE_DIR when it        *)
(* started; the unlink of an expired file may fail.                        *)
NextTiers ==
    \/ Tick
    \/ cleanup_cache
    \/ OgSteps({<<"", "">>}, {TRUE}, BOOLEAN, MaxTierReqs)

SpecTiers == InitDisk /\ [][NextTiers]_vars

(* SpecPull: everything that may remove a file. /og traffic, the           *)
(* administration routes, the clock and the cleanup timer in a process     *)
(* that found files in CACHE_DIR when it started.                          *)
NextPull ==
    \/ Tick
    \/ cleanup_cache
    \/ OgSteps({<<"", "">>}, {TRUE}, BOOLEAN, MaxPullReqs)
    \/ AdminSteps({TRUE}, MaxPullReqs)

SpecPull == InitDisk /\ [][NextPull]_vars

(* SpecLive: /og traffic, the clock and the cleanup timer, with time that *)
(* advances (as far as the model follows it) and a timer that keeps        *)
(* firing: setInterval runs cleanup_cache again and again, whatever the    *)
(* requests do.                                                            *)
NextLive ==
    \/ Tick
    \/ cleanup_cache
    \/ \E p \in Procs :
          nreq < MaxLiveReqs /\ fallback_rate_limit_middleware(p, <<"", "">>)
    \/ \E p \in Procs, query \in Queries, referer \in Referers :
          og_handler(p, query, referer)
    \/ \E p \in Procs : stat_jpg(p, TRUE)
    \/ \E p \in Procs : read_jpg(p, TRUE)
    \/ \E p \in Procs : unlink_jpg(p, TRUE)
    \/ \E p \in Procs : stat_file(p, TRUE)
    \/ \E p \in Procs, buffer \in RenderChoices : render_done(p, buffer)
    \/ \E p \in Procs : render_failed(p)
    \/ \E w \in pending : fs_detached(w, TRUE)

SpecLive == Init /\ [][NextLive]_vars /\ WF_vars(Tick) /\ WF_vars(cleanup_cache)

----------------------------------------------------------------------------
(* Properties of the cache and of the rate limiter.                        *)

LookupOps == {"lookup", "lookup_start"}

\* C1 (round trip): a lookup of key k that comes directly after
\* cache_image(k, p, authorized = true), at the same instant, is answered from
\* the RAM cache with the image p.
C1_RoundTrip ==
    [][ ( /\ last.op = "cache_image"
          /\ last.authorized
          /\ last'.op \in LookupOps
          /\ last'.began
          /\ last'.key = last.key )
        => ( /\ last'.op = "lookup"
             /\ last'.hit
             /\ last'.source = "ram"
             /\ last'.buffer = last.buffer ) ]_vars

C1_Witness ==
    /\ last.op = "lookup"
    /\ last.began
    /\ last.hit
    /\ last.source = "ram"
    /\ last.after.op = "cache_image"
    /\ last.after.key = last.key
    /\ RamGet(ram_cache, last.key).ttl = CACHE_TTL
    /\ RamGet(ram_cache, last.key).timestamp = now

\* C2 (trust-gated persistence): a file exists for key k only if
\* cache_image(k, ., authorized = true) was called before.
C2_TrustGatedPersistence ==
    \A k \in Keys :
        (FileExists(disk, JpgFile(k)) \/ FileExists(disk, PngFile(k)))
            => stored[k].trusted

\* C3 (fixed window): of the decisions of one client in one window, the first
\* max_requests are admitted and every later one is rejected.
C3_FixedWindow ==
    last.op = "rate_limit" => (last.admitted <=> last.nth <= max_requests)

C3_Witness ==
    /\ last.op = "rate_limit"
    /\ ~last.admitted
    /\ last.nth = max_requests + 1

\* C4 (rejection): every 429 of the in-process limiter leaves no request
\* remaining and names a strictly positive retry_after.
C4_RejectionRetryAfter ==
    (last.op = "rate_limit" /\ ~last.admitted)
        => (max_requests - last.count = 0 /\ last.retry_after > 0)

CachePhases ==
    {"stat_jpg", "read_jpg", "unlink_jpg", "stat", "unlink", "read", "render"}

\* C5 (admission first): a request is in the cache or in the renderer only
\* after the limiter admitted it, cache_image is called only after that
\* request's lookup missed, and a rejected request is answered at once.
C5_AdmissionFirst ==
    /\ \A p \in Procs : pc[p] \in CachePhases => loc[p].admitted
    /\ \A p \in Procs : pc[p] = "render" => loc[p].miss
    /\ last.op \in LookupOps \cup {"cache_image"} => last.passed
    /\ last.op = "cache_image" => last.after_miss
    /\ (last.op = "rate_limit" /\ ~last.admitted)
          => \A p \in Procs : pc[p] = "og_handler" => loc[p].admitted

C5_Witness ==
    /\ last.op = "rate_limit"
    /\ ~last.admitted
    /\ ram_cache # <<>>
    /\ \A p \in Procs : pc[p] = "idle"

AdminToken == BearerOf(ADMIN_TOKEN)

\* C6 (administration needs the credential): the handler of clear-all or
\* delete-one starts only for a request whose Authorization header is the
\* bearer form of the secret; every other request is answered 401 and leaves
\* the RAM cache, the files and the detached fs calls as they were.
C6_UnauthorizedAdminRejected ==
    [][ /\ last'.op \in {"clear_start", "delete_start"}
            => last'.token = AdminToken
        /\ (last'.op \in {"clear", "delete"} /\ last'.status = 401)
            => ( /\ last'.token # AdminToken
                 /\ ram_cache' = ram_cache
                 /\ disk' = disk
                 /\ pending' = pending ) ]_vars

C6_Witness ==
    /\ last.op \in {"clear", "delete"}
    /\ last.status = 401
    /\ last.token \in {NoStr, BearerOf(<<"t">>)}
    /\ ram_cache # <<>>
    /\ DOMAIN disk # {}

\* C7, as claimed: a status request whose Authorization header is not the
\* bearer form of the secret is rejected.
C7_StatusNeedsCredential ==
    (last.op = "status" /\ last.token # AdminToken) => last.status = 401

\* C7, amended: clear-all and delete-one need the credential, the status route
\* does not: every status request, whatever its Authorization header, is
\* answered 200 with the files of the disk cache and the keys the RAM cache
\* held when the request came in.
C7_StatusIsPublic ==
    /\ last.op \in {"clear_start", "delete_start"} => last.token = AdminToken
    /\ last.op = "status"
          => /\ last.status = 200
             /\ last.disk_files = DOMAIN disk
             /\ last.alone
                   => last.ram_keys = [i \in 1..Len(ram_cache) |-> ram_cache[i].key]

C7_Witness ==
    /\ last.op = "status"
    /\ last.status = 200
    /\ last.token = NoStr
    /\ last.ram_keys # <<>>
    /\ last.disk_files # {}

\* C8 (promotion): a lookup answered from disk returns the content of the
\* file and leaves the key in the RAM cache with that content; a lookup of
\* the same key directly after it is answered from the RAM cache with the
\* same image; and a lookup that no other step ran into misses only if the
\* primary file of its key is absent or expired.
C8_Promotion ==
    [][ /\ (last'.op = "lookup" /\ last'.hit /\ last'.source = "disk")
            => ( /\ \E ext \in {"jpg", "png"} :
                       /\ FileExists(disk, FileOf(last'.key, ext))
                       /\ disk[FileOf(last'.key, ext)].content = last'.buffer
                 /\ last'.key \in RamKeys(ram_cache')
                 /\ RamGet(ram_cache', last'.key).buffer = last'.buffer )
        /\ ( /\ last.op = "lookup" /\ last.hit /\ last.source = "disk"
             /\ last'.op \in LookupOps /\ last'.began
             /\ last'.key = last.key )
            => ( /\ last'.op = "lookup"
                 /\ last'.hit
                 /\ last'.source = "ram"
                 /\ last'.buffer = last.buffer )
        /\ ( /\ last'.op = "lookup" /\ ~last'.hit /\ last'.alone
             /\ FileExists(disk, JpgFile(last'.key)) )
            => ~DiskFresh(disk[JpgFile(last'.key)], now) ]_vars

C8_Witness ==
    /\ last.op = "lookup"
    /\ last.began
    /\ last.hit
    /\ last.source = "ram"
    /\ last.after.op = "lookup"
    /\ last.after.disk
    /\ last.after.key = last.key

\* C9 (TTL expiry): no lookup of key k that is issued later than the expiry
\* of the last cache_image(k, ...), which is its time plus the TTL it was
\* given, is a hit. (A lookup that no other step ran into was issued at the
\* instant it returns.)
C9_TtlExpiry ==
    (last.op = "lookup" /\ last.hit /\ last.alone /\ stored[last.key].expires >= 0)
        => now <= stored[last.key].expires

\* C10 (RAM bound): the RAM cache never holds more than MAX_RAM_CACHE_SIZE
\* entries.
C10_RamCacheBound == Len(ram_cache) <= MAX_RAM_CACHE_SIZE

C12_DeleteOneBothTiers ==
    (last.op = "delete" /\ last.status = 200 /\ last.alone /\ pending = {})
        => /\ last.key \notin RamKeys(ram_cache)
           /\ ~FileExists(disk, JpgFile(last.key))
           /\ ~FileExists(disk, PngFile(last.key))

\* C13 (clear-all counts): the response of an authorized clear-all names, for
\* the disk cache, the number of files the request removed.
C13_ClearAllCounts ==
    (last.op = "clear" /\ last.status = 200)
        => last.disk_cleared_entries = last.disk_removed

\* C14 (storage errors do not propagate): whichever fs call of a lookup
\* fails, the lookup ends as a hit or as a miss and the request goes on (a 500
\* is answered only when the renderer failed); cache_image answers 200 and
\* leaves its key in the RAM cache with the image it was given; and the
\* outcome of the detached write touches neither the RAM cache nor a request.
C14_StorageErrorsContained ==
    [][ /\ last'.op = "og_error"
            => \E p \in Procs : pc[p] = "render" /\ pc'[p] = "idle"
        /\ \A p \in Procs :
              (pc[p] \in CachePhases \ {"render"} /\ pc'[p] # pc[p])
                 => \/ pc'[p] \in CachePhases
                    \/ last'.op = "lookup" /\ last'.hit /\ last'.status = 200
        /\ last'.op = "cache_image"
            => /\ last'.status = 200
               /\ last'.key \in RamKeys(ram_cache')
               /\ RamGet(ram_cache', last'.key).buffer = last'.buffer
        /\ pending' \subseteq pending /\ pending' # pending
            => ram_cache' = ram_cache /\ pc' = pc ]_vars

\* a lookup met a failing fs call on a file that is there, and returned a miss
C14_Witness ==
    /\ last.op = "lookup"
    /\ ~last.hit
    /\ last.err
    /\ FileExists(disk, JpgFile(last.key))
    /\ \E p \in Procs : pc[p] = "render" /\ loc[p].key = last.key

\* C15, as claimed: a request that is rejected as invalid has not created or
\* incremented the window counter of its client.
C15_ValidationBeforeAdmission ==
    last.op = "og_invalid" => ~last.counted

\* C15, amended: validation comes after admission and before the cache. A
\* request that is rejected as invalid (400) was admitted by the limiter,
\* which created or incremented the window counter of its client, and the
\* step that rejects it changes neither the RAM cache, the files, the
\* detached fs calls nor the counters, and leaves the request answered.
C15_ValidationAfterAdmission ==
    [][ last'.op = "og_invalid"
          => /\ last'.status = 400
             /\ last'.passed
             /\ last'.counted
             /\ ram_cache' = ram_cache
             /\ disk' = disk
             /\ pending' = pending
             /\ request_counts' = request_counts
             /\ \A p \in Procs : pc'[p] # pc[p] => pc'[p] = "idle" ]_vars

\* an invalid request was rejected while both tiers hold an image
C15_Witness ==
    /\ last.op = "og_invalid"
    /\ last.counted
    /\ ram_cache # <<>>
    /\ DOMAIN disk # {}
    /\ request_counts # <<>>

OgResponse == last.op = "cache_image" \/ (last.op = "lookup" /\ last.hit)

\* C16, as claimed: the max-age of every /og response, hit or miss, is the TTL
\* applied to the cache entry: the standard TTL (CACHE_TTL) for a trusted
\* caller, the short TTL for an untrusted one.
C16_MaxAgeIsEntryTtl ==
    OgResponse
        => last.max_age = (IF last.authorized THEN CACHE_TTL ELSE SHORT_CACHE_TTL)

\* C16, amended: the max-age of every /og response, hit or miss, is chosen by
\* the trust of the caller alone: HTTP_CACHE_TTL for a trusted caller,
\* SHORT_CACHE_TTL for an untrusted one. For an untrusted caller's miss it is
\* the TTL of the entry just stored; for a trusted caller's miss the entry has
\* CACHE_TTL, which is the max-age only if HTTP_CACHE_TTL is configured equal.
C16_MaxAgeByTrust ==
    /\ OgResponse
          => last.max_age =
                (IF last.authorized THEN HTTP_CACHE_TTL ELSE SHORT_CACHE_TTL)
    /\ last.op = "cache_image"
          => /\ last.key \in RamKeys(ram_cache)
             /\ RamGet(ram_cache, last.key).ttl =
                   (IF last.authorized THEN CACHE_TTL ELSE last.max_age)

\* a trusted caller's miss: the entry is stored with CACHE_TTL, the response
\* carries HTTP_CACHE_TTL
C16_Witness ==
    /\ last.op = "cache_image"
    /\ last.authorized
    /\ last.max_age = HTTP_CACHE_TTL
    /\ RamGet(ram_cache, last.key).ttl = CACHE_TTL

UpstashActive == og_middleware = "upstash_rate_limit_middleware"

\* C17, as claimed: the Upstash strategy is the active one exactly when the
\* Upstash configuration is present.
C17_UpstashIffConfigured ==
    UpstashActive <=> env.UPSTASH_REDIS_REST_URL # ""

\* C17, amended: the strategy is selected once, when the process starts, and
\* never changes: the Upstash sliding window is active exactly when NODE_ENV
\* is "production" and UPSTASH_REDIS_REST_URL is set (the token is not looked
\* at), otherwise the in-process fixed window is; every decision is taken by
\* the strategy selected at startup, and under Upstash the in-process
\* counters are never touched.
C17_StrategyFixedAtStartup ==
    [][ /\ startup' = startup
        /\ UpstashActive <=> ( /\ env.NODE_ENV = "production"
                               /\ env.UPSTASH_REDIS_REST_URL # "" )
        /\ UpstashActive <=> ratelimit # "null"
        /\ last'.op = "rate_limit" => ~UpstashActive
        /\ last'.op \in {"upstash_limit", "upstash_error"} => UpstashActive
        /\ UpstashActive => request_counts' = <<>> ]_vars

\* a process with the URL set outside production has taken a decision with
\* the in-process window
C17_Witness ==
    /\ env.UPSTASH_REDIS_REST_URL # ""
    /\ env.NODE_ENV # "production"
    /\ last.op = "rate_limit"
    /\ request_counts # <<>>

\* b is a with the boundary of title and author shifted over a "-" of the
\* title: a = (x-y, z, w, t) and b = (x, y-z, w, t)
BoundaryShifted(a, b) ==
    /\ a.website = b.website
    /\ a.theme = b.theme
    /\ \E i \in 1..Len(a.title) :
          /\ a.title[i] = "-"
          /\ b.title = SubSeq(a.title, 1, i - 1)
          /\ b.author = SubSeq(a.title, i + 1, Len(a.title)) \o <<"-">> \o a.author

\* C18 (key join): the key is the four fields joined with "-" and nothing
\* else (its length is theirs plus three), equal tuples have equal keys, and
\* two tuples that differ only in where the boundary of title and author
\* falls around a "-" have the same key.
C18_KeyJoin ==
    last.op = "cache_key"
        => /\ Len(last.key_a) =
                 Len(last.a.title) + Len(last.a.author) + Len(last.a.website)
                     + Len(last.a.theme) + 3
           /\ last.a = last.b => last.key_a = last.key_b
           /\ BoundaryShifted(last.a, last.b) => last.key_a = last.key_b

\* title "A-B", author "C" and title "A", author "B-C" have one key
C18_Witness ==
    /\ last.op = "cache_key"
    /\ last.a.title = <<"A", "-", "B">> /\ last.a.author = <<"C">>
    /\ last.b.title = <<"A">> /\ last.b.author = <<"B", "-", "C">>
    /\ last.a # last.b
    /\ last.key_a = last.key_b

\* C19 (no single flight): every lookup that misses sends its request on to
\* the renderer, whatever other request is rendering the same key; every
\* render that returns is followed by cache_image, which leaves other renders
\* in flight as they are; and after cache_image the RAM cache holds exactly
\* one entry for the key, with the image of this last call.
C19_NoSingleFlight ==
    [][ /\ (last'.op = "lookup" /\ ~last'.hit)
            => \E p \in Procs : /\ pc[p] # "render"
                                 /\ pc'[p] = "render"
                                 /\ loc'[p].key = last'.key
        /\ last'.op = "cache_image"
            => /\ \E p \in Procs : /\ pc[p] = "render"
                                    /\ pc'[p] = "idle"
                                    /\ loc[p].key = last'.key
                                    /\ \A q \in Procs \ {p} :
                                          pc'[q] = pc[q] /\ loc'[q] = loc[q]
               /\ Cardinality({i \in 1..Len(ram_cache') :
                                  ram_cache'[i].key = last'.key}) = 1
               /\ RamGet(ram_cache', last'.key).buffer = last'.buffer ]_vars

\* two requests missed on one key and both went to the renderer; the first
\* has called cache_image while the render of the second is in flight
C19_Witness ==
    /\ last.op = "cache_image"
    /\ \E q \in Procs : pc[q] = "render" /\ loc[q].key = last.key
    /\ RamGet(ram_cache, last.key).buffer = last.buffer

\* C20 (a sweep between lookup and store is benign): whatever passes of
\* cleanup_cache ran while a request was in the renderer, right after its
\* cache_image the RAM cache maps the key to the image just rendered, with
\* the time of the call as timestamp and the TTL of the caller's trust.
C20_SweepBenign ==
    last.op = "cache_image"
        => /\ last.key \in RamKeys(ram_cache)
           /\ RamGet(ram_cache, last.key) =
                 [key |-> last.key, buffer |-> last.buffer, timestamp |-> now,
                  ttl |-> IF last.authorized THEN CACHE_TTL ELSE SHORT_CACHE_TTL]

\* cleanup_cache ran while the request was in the renderer, directly before
\* its cache_image, at a time when entries had expired
C20_Witness ==
    /\ last.op = "cache_image"
    /\ last.swept
    /\ now >= MsPerSec * (SHORT_CACHE_TTL + 1)
    /\ RamGet(ram_cache, last.key).timestamp = now

\* a Cache Entry is expired when now - created_at > ttl_seconds (in ms)
Unexpired(entry, t) == t - entry.timestamp <= entry.ttl * MsPerSec

\* C21 (lookup order): a lookup of a key whose RAM entry is unexpired is
\* answered from the RAM cache with the image of that entry, at once, and
\* leaves the RAM cache (timestamp and ttl of the entry included), the files
\* and the detached fs calls as they were; a request goes to the disk cache
\* only if the RAM cache holds no unexpired entry for its key.
C21_FastTierFirst ==
    [][ \A p \in Procs :
          /\ ( /\ pc[p] = "og_handler"
               /\ last'.op \in LookupOps
               /\ last'.key \in RamKeys(ram_cache)
               /\ Unexpired(RamGet(ram_cache, last'.key), now) )
              => ( /\ last'.op = "lookup"
                   /\ last'.hit
                   /\ last'.source = "ram"
                   /\ last'.buffer = RamGet(ram_cache, last'.key).buffer
                   /\ pc'[p] = "idle"
                   /\ ram_cache' = ram_cache
                   /\ disk' = disk
                   /\ pending' = pending )
          /\ (pc[p] = "og_handler" /\ pc'[p] = "stat_jpg")
              => ~( /\ loc'[p].key \in RamKeys(ram_cache)
                    /\ Unexpired(RamGet(ram_cache, loc'[p].key), now) ) ]_vars

\* (the same with the comparison of get_cached_image, which holds)
C21_FastTierFirst_Strict ==
    [][ \A p \in Procs :
          /\ ( /\ pc[p] = "og_handler"
               /\ last'.op \in LookupOps
               /\ last'.key \in RamKeys(ram_cache)
               /\ RamFresh(RamGet(ram_cache, last'.key), now) )
              => ( /\ last'.op = "lookup"
                   /\ last'.hit
                   /\ last'.source = "ram"
                   /\ last'.buffer = RamGet(ram_cache, last'.key).buffer
                   /\ pc'[p] = "idle"
                   /\ ram_cache' = ram_cache
                   /\ disk' = disk
                   /\ pending' = pending )
          /\ (pc[p] = "og_handler" /\ pc'[p] = "stat_jpg")
              => ~( /\ loc'[p].key \in RamKeys(ram_cache)
                    /\ RamFresh(RamGet(ram_cache, loc'[p].key), now) ) ]_vars

C23_StoreOverwrites ==
    [][ last'.op = "cache_image"
          => LET k == last'.key
                 was == k \in RamKeys(ram_cache)
                 entry == RamGet(ram_cache', k)
             IN  /\ k \in RamKeys(ram_cache')
                 /\ entry.buffer = last'.buffer
                 /\ entry.timestamp = now
                 /\ last'.authorized => entry.ttl = CACHE_TTL
                 /\ ~last'.authorized => entry.ttl = SHORT_CACHE_TTL
                 /\ was => /\ Len(ram_cache') = Len(ram_cache)
                           /\ RamIndex(ram_cache', k) = RamIndex(ram_cache, k)
                 /\ ~was => Len(ram_cache') = Len(ram_cache) + 1 ]_vars

\* an unauthorized cache_image replaced an entry that had the standard TTL
C23_Witness ==
    /\ last.op = "cache_image"
    /\ ~last.authorized
    /\ last.replaced = CACHE_TTL
    /\ RamGet(ram_cache, last.key).ttl = SHORT_CACHE_TTL
    /\ RamGet(ram_cache, last.key).buffer = last.buffer

\* C24 (expiry on read): a lookup that finds a RAM entry for its key returns
\* it, from the RAM cache, if now - timestamp <= ttl * 1000, equality
\* included; if the entry is older, this lookup removes it from the RAM
\* cache, with no pass of cleanup_cache needed, and does not answer from the
\* RAM cache.
C24_ReadExpiry ==
    [][ \A p \in Procs :
          ( /\ pc[p] = "og_handler"
            /\ last'.op \in LookupOps
            /\ last'.key \in RamKeys(ram_cache) )
          => LET entry == RamGet(ram_cache, last'.key)
                 from_ram == /\ last'.op = "lookup"
                             /\ last'.hit
                             /\ last'.source = "ram"
             IN  /\ now - entry.timestamp <= entry.ttl * MsPerSec
                       => from_ram /\ last'.buffer = entry.buffer
                 /\ now - entry.timestamp > entry.ttl * MsPerSec
                       => ~from_ram /\ last'.key \notin RamKeys(ram_cache') ]_vars

\* (the same with equality on the side of the expired entries, which holds)
C24_ReadExpiry_Strict ==
    [][ \A p \in Procs :
          ( /\ pc[p] = "og_handler"
            /\ last'.op \in LookupOps
            /\ last'.key \in RamKeys(ram_cache) )
          => LET entry == RamGet(ram_cache, last'.key)
                 from_ram == /\ last'.op = "lookup"
                             /\ last'.hit
                             /\ last'.source = "ram"
             IN  /\ now - entry.timestamp < entry.ttl * MsPerSec
                       => from_ram /\ last'.buffer = entry.buffer
                 /\ now - entry.timestamp >= entry.ttl * MsPerSec
                       => ~from_ram /\ last'.key \notin RamKeys(ram_cache') ]_vars

\* C25 (expiry pass of the sweeper): right after a pass of cleanup_cache no
\* entry of the RAM cache has now - timestamp > ttl * 1000, each entry judged
\* by its own ttl, and unless more than MAX_RAM_CACHE_SIZE entries are
\* unexpired the pass removes none of them: it leaves exactly the unexpired
\* entries, in their order.
C25_SweepExpiry ==
    [][ last'.op = "cleanup_cache"
          => /\ \A e \in RamEntries(ram_cache') :
                   ~(now - e.timestamp > e.ttl * MsPerSec)
             /\ Cardinality({e \in RamEntries(ram_cache) : Unexpired(e, now)})
                      <= MAX_RAM_CACHE_SIZE
                   => ram_cache' =
                         SelectSeq(ram_cache, LAMBDA e : Unexpired(e, now)) ]_vars

\* a pass found two entries of the same age, removed the one whose short ttl
\* had elapsed and kept the one that had reached its standard ttl exactly
C25_Witness ==
    /\ last.op = "cleanup_cache"
    /\ last.size = 2
    /\ last.live = 1
    /\ Len(ram_cache) = 1
    /\ ram_cache[1].ttl = CACHE_TTL
    /\ now - ram_cache[1].timestamp = CACHE_TTL * MsPerSec

AfterExpiredJpg(p) == pc[p] \in {"stat", "unlink", "read"} /\ loc[p].ext = "jpg"

\* C27 (disk read of a present .jpg): if the age of the file, now - mtime, is
\* over CACHE_TTL, the read goes on to unlink it, whether or not the unlink
\* succeeds nothing but this file is removed, and the read, if no other step
\* runs into it, ends as a miss; if the age is within CACHE_TTL, the read
\* returns the content of the file and leaves the files as they are.
C27_PrimaryFileRead ==
    [][ \A p \in Procs :
          LET f == JpgFile(loc[p].key)
          IN  /\ (pc[p] = "stat_jpg" /\ pc'[p] # pc[p] /\ FileExists(disk, f))
                  => /\ disk' = disk
                     /\ pc'[p] = (IF now - disk[f].mtime > CACHE_TTL * MsPerSec
                                  THEN "unlink_jpg" ELSE "read_jpg")
              /\ (pc[p] = "read_jpg" /\ pc'[p] # pc[p] /\ FileExists(disk, f))
                  => /\ disk' = disk
                     /\ last'.op = "lookup"
                     /\ last'.hit
                     /\ last'.source = "disk"
                     /\ last'.buffer = disk[f].content
              /\ (pc[p] = "unlink_jpg" /\ pc'[p] # pc[p])
                  => /\ disk' \in {disk, Unlink(disk, f)}
                     /\ AfterExpiredJpg(p)'
              /\ (AfterExpiredJpg(p) /\ p \in undisturbed /\ pc'[p] # pc[p])
                  => /\ disk' \in {disk, Unlink(disk, f)}
                     /\ \/ AfterExpiredJpg(p)' /\ pc'[p] = "unlink"
                        \/ last'.op = "lookup" /\ ~last'.hit ]_vars

\* a read found the .jpg expired, its unlinks failed, and it ended as a miss
\* with the file still there
C27_Witness ==
    /\ last.op = "lookup"
    /\ ~last.hit
    /\ last.alone
    /\ FileExists(disk, JpgFile(last.key))
    /\ now - disk[JpgFile(last.key)].mtime > CACHE_TTL * MsPerSec

\* C28 (legacy fallback): a read that finds no .jpg for its key goes on to the
\* .png; a .png whose age is within CACHE_TTL is read and its content
\* returned, an expired .png is unlinked (which may fail) and the read is a
\* miss; and a read that no other step ran into and that is answered from
\* disk returns the content of the .jpg whenever the .jpg is there.
C28_LegacyFallback ==
    [][ /\ \A p \in Procs :
              LET jpg == JpgFile(loc[p].key)
                  png == PngFile(loc[p].key)
                  legacy == pc[p] \in {"stat", "unlink", "read"}
                               /\ loc[p].ext = "png"
              IN  /\ (pc[p] = "stat_jpg" /\ pc'[p] # pc[p]
                         /\ ~FileExists(disk, jpg))
                      => /\ pc'[p] = "stat"
                         /\ loc'[p].ext = "png"
                         /\ disk' = disk
                  /\ (legacy /\ pc[p] = "stat" /\ pc'[p] # pc[p]
                         /\ FileExists(disk, png))
                      => /\ disk' = disk
                         /\ pc'[p] = (IF now - disk[png].mtime
                                            <= CACHE_TTL * MsPerSec
                                      THEN "read" ELSE "unlink")
                  /\ (legacy /\ pc[p] = "read" /\ pc'[p] # pc[p]
                         /\ FileExists(disk, png))
                      => /\ disk' = disk
                         /\ last'.op = "lookup"
                         /\ last'.hit
                         /\ last'.source = "disk"
                         /\ last'.buffer = disk[png].content
                  /\ (legacy /\ pc[p] = "unlink" /\ pc'[p] # pc[p])
                      => /\ disk' \in {disk, Unlink(disk, png)}
                         /\ last'.op = "lookup"
                         /\ ~last'.hit
        /\ ( /\ last'.op = "lookup" /\ last'.hit /\ last'.source = "disk"
             /\ last'.alone
             /\ FileExists(disk, JpgFile(last'.key)) )
            => last'.buffer = disk[JpgFile(last'.key)].content ]_vars

\* a read that found no .jpg returned the content of a .png written earlier
C28_Witness ==
    /\ last.op = "lookup"
    /\ last.hit
    /\ last.source = "disk"
    /\ last.alone
    /\ ~FileExists(disk, JpgFile(last.key))
    /\ FileExists(disk, PngFile(last.key))
    /\ last.buffer = disk[PngFile(last.key)].content
    /\ disk[PngFile(last.key)].mtime < now

Elapsing ==
    {e \in {n * MsPerSec : n \in 0..MaxTick} \X {SHORT_CACHE_TTL, CACHE_TTL} :
        e[1] + e[2] * MsPerSec < MaxTick * MsPerSec}

\* the RAM cache holds, for key k, the entry stored at time t with this ttl
Holds(k, t, ttl) ==
    /\ k \in RamKeys(ram_cache)
    /\ RamGet(ram_cache, k).timestamp = t
    /\ RamGet(ram_cache, k).ttl = ttl

\* C30 (every entry is removed in the end): a pass of cleanup_cache leaves no
\* entry whose ttl has elapsed, so the first pass after that instant removes
\* the entry if it is still there; and with time advancing and the timer of
\* cleanup_cache firing again and again, no entry whose ttl elapses within
\* the time the model follows stays in the RAM cache for ever, read or not:
\* it is overwritten, removed by a read that finds it expired, or removed by
\* a pass.
C30_EntryEventuallyGone ==
    /\ [][ last'.op = "cleanup_cache"
             => \A e \in RamEntries(ram_cache) :
                   now - e.timestamp > e.ttl * MsPerSec
                      => e \notin RamEntries(ram_cache') ]_vars
    /\ \A k \in Keys, e \in Elapsing :
          Holds(k, e[1], e[2]) ~> ~Holds(k, e[1], e[2])

\* the first pass after the ttl of an entry elapsed has removed it
C30_Witness ==
    /\ last.op = "cleanup_cache"
    /\ last.size = 1
    /\ last.live = 0
    /\ ram_cache = <<>>

\* C31 (fixed-window reset): a decision for a client that has no counter, or
\* that is taken strictly later than the reset_time of its counter, is an
\* admission and leaves the counter at {count 1, reset_time now + window_ms},
\* whatever the old count was; a decision at exactly reset_time is judged by
\* the count of the old window and leaves reset_time as it is.
C31_WindowReset ==
    [][ last'.op = "rate_limit"
          => LET c == last'.client
                 known == c \in DOMAIN request_counts
             IN  /\ (~known \/ now > request_counts[c].reset_time)
                     => /\ last'.admitted
                        /\ request_counts'[c] =
                              [count |-> 1, reset_time |-> now + window_ms]
                 /\ (known /\ now = request_counts[c].reset_time)
                     => /\ last'.admitted
                              <=> request_counts[c].count < max_requests
                        /\ request_counts'[c].reset_time =
                              request_counts[c].reset_time ]_vars

\* a client that was rejected in its window is admitted by its first decision
\* after the reset_time, with a new counter
C31_Witness ==
    /\ last.op = "rate_limit"
    /\ last.admitted
    /\ last.prev_n > max_requests
    /\ last.nth = 1
    /\ request_counts[last.client] = [count |-> 1, reset_time |-> now + window_ms]

\* C32 (a rejection changes nothing): a 429 of the in-process limiter leaves
\* the Map request_counts as it was, the counter of the rejected client and
\* those of all others, and an admission inside a window adds one to the
\* count of its client and changes neither its reset_time nor any other
\* counter.
C32_RejectionLeavesCounters ==
    [][ last'.op = "rate_limit"
          => LET c == last'.client
             IN  /\ ~last'.admitted => request_counts' = request_counts
                 /\ ( /\ last'.admitted
                      /\ c \in DOMAIN request_counts
                      /\ now <= request_counts[c].reset_time )
                     => request_counts' =
                           [request_counts EXCEPT ![c].count = @ + 1] ]_vars

\* a client was rejected a second time in one window: its counter stands at
\* max_requests, with the reset_time of the window's first request
C32_Witness ==
    /\ last.op = "rate_limit"
    /\ ~last.admitted
    /\ last.prev_n > max_requests
    /\ request_counts[last.client].count = max_requests
    /\ request_counts[last.client].reset_time = decisions[last.client].reset_at
    /\ request_counts[last.client].reset_time < now + window_ms

\* what a limiter that serves client c alone, with the requests of c at the
\* times they came, holds for c: the window of c and its count, which stops
\* at max_requests
Solo(c) ==
    [count |-> IF decisions[c].n < max_requests
               THEN decisions[c].n ELSE max_requests,
     reset_time |-> decisions[c].reset_at]

\* C33 (clients are independent): a decision for client a changes the counter
\* of no other client, and after every step the counter of each client, and
\* with it each admission or rejection, is what it would be had the limiter
\* served that client alone: the requests of other clients make no
\* difference to it.
C33_ClientsIndependent ==
    [][ /\ last'.op = "rate_limit"
            => /\ \A d \in ClientIds \ {last'.client} :
                     /\ d \in DOMAIN request_counts' <=> d \in DOMAIN request_counts
                     /\ d \in DOMAIN request_counts
                           => request_counts'[d] = request_counts[d]
               /\ last'.admitted <=> last'.nth <= max_requests
        /\ \A c \in ClientIds :
              IF decisions'[c] = NoWindow
              THEN c \notin DOMAIN request_counts'
              ELSE /\ c \in DOMAIN request_counts'
                   /\ request_counts'[c] = Solo(c)' ]_vars

\* a client is admitted, as the first of its window, while another client
\* stands rejected in a window that is still open
C33_Witness ==
    /\ last.op = "rate_limit"
    /\ last.admitted
    /\ last.nth = 1
    /\ \E d \in ClientIds \ {last.client} :
          /\ d \in DOMAIN request_counts
          /\ decisions[d].n > max_requests
          /\ now <= request_counts[d].reset_time

\* the number of times client c was admitted in the interval of window_ms
\* that ends now: after now - window_ms, up to now
AdmittedSince(c) == Len(decisions[c].log)

\* C34 as stated (at most max_requests in any interval of window_ms): no
\* client is admitted more than max_requests times in the interval of
\* window_ms that ends now.
C34_AnyIntervalMax ==
    \A c \in ClientIds : AdmittedSince(c) <= max_requests

\* C34 (amended: a window of the limiter admits at most max_requests, an
\* interval across the end of a window at most 2 * max_requests - 1): no
\* client is admitted more than 2 * max_requests - 1 times in the interval
\* of window_ms that ends now, and no more than max_requests times in one
\* window of the limiter.
C34_AnyIntervalTwoWindows ==
    /\ \A c \in ClientIds : AdmittedSince(c) <= 2 * max_requests - 1
    /\ \A c \in ClientIds :
          decisions[c].n > 0
            => /\ request_counts[c].count <= max_requests
               /\ request_counts[c].count <= decisions[c].n

\* a client was admitted 2 * max_requests - 1 times in less than window_ms:
\* max_requests of them in the window that has just begun
C34_Witness ==
    /\ last.op = "rate_limit"
    /\ last.admitted
    /\ AdmittedSince(last.client) = 2 * max_requests - 1
    /\ request_counts[last.client].count = max_requests
    /\ request_counts[last.client].reset_time = now + window_ms

\* C35 (staleness bound): a lookup never returns a payload that was stored
\* more than CACHE_TTL before it. Where only key k was ever stored, the
\* payload a lookup of k returns is one that cache_image stored for k, at
\* the time of the last cache_image(k, ...) or before: no lookup of k issued
\* later than that time plus CACHE_TTL is a hit.
C35_StalenessBound ==
    ( /\ last.op = "lookup"
      /\ last.hit
      /\ last.alone
      /\ stored[last.key].at >= 0
      /\ \A k \in Keys \ {last.key} : stored[k] = NoStore )
        => now <= stored[last.key].at + CACHE_TTL * MsPerSec

\* C36 (deleted data does not reappear): an authorized delete-one(k) or
\* clear-all that no other step ran into has returned, and the calls of
\* fs.writeFile that were pending then (of cache_image calls made before the
\* deletion began) settle, the last of them in this step, with no
\* cache_image since: every key the deletion covers (k, or every key stored)
\* is then in neither tier.
C36_DeletedStaysDeleted ==
    [][ ( /\ last.op \in {"delete", "clear"}
          /\ last.status = 200
          /\ last.alone
          /\ pending # {}
          /\ pending' = {}
          /\ last'.op = "step" )
        => \A k \in Keys :
              ( /\ stored[k].at >= 0
                /\ last.op = "delete" => k = last.key )
              => /\ k \notin RamKeys(ram_cache')
                 /\ ~FileExists(disk', JpgFile(k))
                 /\ ~FileExists(disk', PngFile(k)) ]_vars

\* C37 (key isolation across the persistent tier): a lookup of key k returns
\* only a payload that was stored under exactly k. In a process that began
\* with an empty CACHE_DIR every payload comes from a cache_image call, so a
\* lookup of k is a hit only if cache_image(k, ...) was called before.
C37_KeyIsolation ==
    (last.op = "lookup" /\ last.hit) => stored[last.key].at >= 0

\* C38 (no secret, no administration): in a process started without
\* ADMIN_TOKEN the handler of clear-all or delete-one starts for no request,
\* whatever its Authorization header: each is answered 401.
C38_UnsetTokenAuthorizesNone ==
    env.ADMIN_TOKEN = Unset
        => /\ last.op \notin {"clear_start", "delete_start"}
           /\ last.op \in {"clear", "delete"} => last.status = 401

\* C39 (a failed decision call admits nothing): when the call of the Upstash
\* limiter fails, the request is answered with an error and is over: the handler is not
\* entered, so neither cache tier is read or written and nothing is stored,
\* and the process, its limiter as it was registered, is free for the next
\* request.
C39_LimiterFailureNotAdmitted ==
    [][ ( /\ last'.op \in {"upstash_limit", "upstash_error"}
          /\ last'.outcome = "error" )
        => /\ UpstashActive
           /\ last'.op = "upstash_error"
           /\ last'.status # 200
           /\ \A p \in Procs :
                 pc'[p] # pc[p] => (pc[p] = "ratelimit_limit" /\ pc'[p] = "idle")
           /\ \E p \in Procs : pc'[p] = "idle"
           /\ ram_cache' = ram_cache
           /\ disk' = disk
           /\ pending' = pending
           /\ stored' = stored
           /\ startup' = startup ]_vars

\* a request that came in directly after a failed call is admitted by the
\* limiter, which answers again
C39_Witness ==
    /\ last.op = "upstash_limit"
    /\ last.admitted
    /\ last.after_error
    /\ \E p \in Procs : pc[p] = "og_handler"

====
